---------------------------- MODULE Spec2Model ----------------------------
(***************************************************************************)
(* Model of the strategy core of ai-trading-system:                        *)
(*   - StrategySignal and Strategy.safe_analyze  (src/strategies/base.py)  *)
(*   - Strategy.backtest, the walk-forward engine (src/strategies/base.py) *)
(*   - EnsembleStrategy.analyze and its voting modes (ensemble.py)         *)
(*                                                                         *)
(* Units.  confidence, position and the risk percentages are integers in   *)
(* hundredths (0.95 is 95).  The unit of price is the smallest amount     *)
(* round(x, 2) resolves (0.01), and prices are whole units.  Money is an   *)
(* integer number of 1/Scale units, so that shares*close*(1 +/- rate) is   *)
(* exact; rates are integers per Scale.                                    *)
(* avg_buy_price and total_buy_cost are exact fractions [n, d].            *)
(* The Python code works in binary floating point; the model is the exact  *)
(* arithmetic of the same expressions.                                     *)
(***************************************************************************)
EXTENDS Integers, Sequences, FiniteSets, TLC

\* ------------------------------------------------------------------ bounds
MaxBars == 4          \* longest bar series handed to backtest
MaxMembers == 5       \* sub-strategies held by the ensemble
MaxOrdered == 3       \* sub-strategies whose evaluation order is varied

\* --------------------------------------------------------------- parameters
Scale == 1000         \* money unit: 1/Scale; rates are per Scale
min_bars == 1         \* Strategy.min_bars of the strategy under backtest
initial_cash == 10000 \* backtest(initial_cash=...)
stamp_tax == 1        \* backtest(stamp_tax=0.001)

Closes == {10, 11, 12}              \* close prices a bar may carry
Commissions == {1, 50, 200}         \* backtest(commission=...): 0.001, 0.05, 0.2
StopLosses == {0, 8}                \* backtest(stop_loss=...): off, 8%
TrailingStops == {0, 5}             \* backtest(trailing_stop=...): off, 5%
TakeProfits == {0, 10}              \* backtest(take_profit=...): off, 10%

VARIABLES
    \* ---- Strategy.backtest: arguments and locals
    pc,                    \* "call" | "loop" | "done" | "aborted" | "idle"
    n,                     \* len(df)
    i,                     \* loop index, min_bars .. n
    commission, stop_loss, trailing_stop, take_profit,
    cash, shares, avg_buy_price, total_buy_cost, max_price_since_buy,
    trades, equity_curve,
    result,                \* the dict backtest returns
    last,                  \* what the latest loop iteration did (history)
    scenario,              \* what analyze has returned so far (history)
    \* ---- Strategy.safe_analyze: one call
    sa,
    \* ---- EnsembleStrategy: one instance and one analyze call
    ens

btVars == <<pc, n, i, commission, stop_loss, trailing_stop, take_profit,
            cash, shares, avg_buy_price, total_buy_cost, max_price_since_buy,
            trades, equity_curve, result, last, scenario>>
vars == <<pc, n, i, commission, stop_loss, trailing_stop, take_profit,
          cash, shares, avg_buy_price, total_buy_cost, max_price_since_buy,
          trades, equity_curve, result, last, scenario, sa, ens>>

\* ------------------------------------------------------------- arithmetic
Min(a, b) == IF a <= b THEN a ELSE b
Max(a, b) == IF a >= b THEN a ELSE b

\* Python int(num/den): truncation toward zero, den > 0
PyInt(num, den) == IF num >= 0 THEN num \div den ELSE -((-num) \div den)

RECURSIVE GCD(_, _)
GCD(a, b) == IF b = 0 THEN a ELSE GCD(b, a % b)

\* exact fractions, kept in lowest terms with d > 0
Rat(num, den) ==
    LET g == GCD(IF num < 0 THEN -num ELSE num, den)
    IN  IF num = 0 THEN [n |-> 0, d |-> 1] ELSE [n |-> num \div g, d |-> den \div g]
RatZero == [n |-> 0, d |-> 1]
RatAddInt(r, k) == Rat(r.n + k * r.d, r.d)
RatMulInt(r, k) == Rat(r.n * k, r.d)
RatDivInt(r, k) == Rat(r.n, r.d * k)

\* ---------------------------------------------------------- StrategySignal
\* max(0.0, min(1.0, x)) in hundredths
Clamp01(x) == Max(0, Min(100, x))

StrategySignal_noclamp(action, confidence, reason, position) ==
    [action |-> action, confidence |-> confidence,
     reason |-> reason, position |-> position]

\* StrategySignal(...) followed by __post_init__
StrategySignal(action, confidence, reason, position) ==
    [action |-> action, confidence |-> Clamp01(confidence),
     reason |-> reason, position |-> Clamp01(position)]

\* what a call of strategy.analyze can do: raise, or return a signal it built
Raise == [raises |-> TRUE]
Return(sig) == [raises |-> FALSE, sig |-> sig]

\* ------------------------------------------------ backtest: risk control
\* pnl_pct <= -stop_loss, pnl_pct = (close - avg)/avg, avg > 0
StopLossHit_signslip(close, avg, sl) ==
    sl > 0 /\ (close * avg.d - avg.n) * 100 >= sl * avg.n

StopLossHit(close, avg, sl) ==
    sl > 0 /\ (close * avg.d - avg.n) * 100 <= -(sl * avg.n)

\* trailing_stop > 0 and peak > avg and (peak - close)/peak >= trailing_stop
TrailingStopHit(close, avg, peak, ts) ==
    /\ ts > 0
    /\ peak * avg.d > avg.n
    /\ (peak - close) * 100 >= ts * peak

\* take_profit > 0 and pnl_pct >= take_profit
TakeProfitHit(close, avg, tp) ==
    tp > 0 /\ (close * avg.d - avg.n) * 100 >= tp * avg.n

\* the three successive `if`s of the risk block; each one that matches
\* assigns risk_exit and risk_reason
RiskCheck(sh, avg, peak0, close, sl, ts, tp) ==
    LET peak == IF sh > 0 /\ close > peak0 THEN close ELSE peak0
        r0 == [risk_exit |-> FALSE, risk_reason |-> "", peak |-> peak]
        r1 == IF StopLossHit(close, avg, sl)
              THEN [r0 EXCEPT !.risk_exit = TRUE, !.risk_reason = "hard_stop_loss"]
              ELSE r0
        r2 == IF TrailingStopHit(close, avg, peak, ts)
              THEN [r1 EXCEPT !.risk_exit = TRUE, !.risk_reason = "trailing_stop"]
              ELSE r1
        r3 == IF TakeProfitHit(close, avg, tp)
              THEN [r2 EXCEPT !.risk_exit = TRUE, !.risk_reason = "take_profit"]
              ELSE r2
    IN  IF sh > 0 THEN r3 ELSE r0

\* revenue of selling qty shares at close
Revenue_notax(qty, close, comm) == qty * close * (Scale - comm)

Revenue(qty, close, comm) == qty * close * (Scale - comm - stamp_tax)

\* ---------------------------------------------------- backtest: BUY branch
\* target_pos = min(0.95, signal.position)
BuyTargetPos_nocap(position) == position

BuyTargetPos(position) == Min(95, position)

\* int(delta_value / close / 100) * 100; delta is in 1/(Scale*100) units
AddShares_roundup(delta, close) ==
    (PyInt(delta, close * 100 * Scale * 100) + 1) * 100

AddShares_nolot(delta, close) == PyInt(delta, close * Scale * 100)

AddShares(delta, close) == PyInt(delta, close * 100 * Scale * 100) * 100

\* cost <= cash
CashSufficient_unchecked(cost, c) == TRUE

CashSufficient(cost, c) == cost <= c

\* an account is [cash, shares, avg_buy_price, total_buy_cost,
\*                max_price_since_buy, trades]; note records the branch taken
BuyBranch(a, equity, close, signal, date, comm) ==
    LET target_pos == BuyTargetPos(signal.position)
        delta == equity * target_pos - a.shares * close * Scale * 100
        add_shares == AddShares(delta, close)
        cost == add_shares * close * (Scale + comm)
        tbc == RatAddInt(a.total_buy_cost, add_shares * close)
        sh == a.shares + add_shares
    IN  IF delta >= close * 100 * Scale * 100 /\ add_shares > 0
        THEN IF CashSufficient(cost, a.cash)
             THEN [acct |-> [cash |-> a.cash - cost,
                             shares |-> sh,
                             avg_buy_price |-> RatDivInt(tbc, sh),
                             total_buy_cost |-> tbc,
                             max_price_since_buy |->
                                 IF close > a.max_price_since_buy
                                 THEN close ELSE a.max_price_since_buy,
                             trades |-> Append(a.trades,
                                 [date |-> date, action |-> "BUY", price |-> close,
                                  shares |-> add_shares, total_shares |-> sh,
                                  risk |-> FALSE, reason |-> signal.reason])],
                   branch |-> "buy", qty |-> add_shares, cost |-> cost]
             ELSE [acct |-> a, branch |-> "buy_rejected", qty |-> add_shares,
                   cost |-> cost]
        ELSE [acct |-> a, branch |-> "buy_skipped", qty |-> 0, cost |-> 0]

\* --------------------------------------------------- backtest: SELL branch
\* int(delta_value / close / 100) * 100 before the clamp
RawSellShares(a, equity, close, target_pos) ==
    PyInt(a.shares * close * Scale * 100 - equity * target_pos,
        close * 100 * Scale * 100) * 100

\* the quantity the SELL branch executes (0: nothing is booked)
SellShares_roundup(a, equity, close, target_pos) ==
    RawSellShares(a, equity, close, target_pos) + 100

SellShares_keepdust(a, equity, close, target_pos) ==
    LET raw == RawSellShares(a, equity, close, target_pos)
        sell_shares == IF (a.shares - raw) < 100 THEN a.shares ELSE raw
    IN  IF sell_shares > 0 /\ sell_shares <= a.shares THEN sell_shares ELSE 0

SellShares_smallisall(a, equity, close, target_pos) ==
    LET raw == RawSellShares(a, equity, close, target_pos)
        sell_shares == IF target_pos < 5 \/ raw < 100 THEN a.shares ELSE raw
    IN  IF sell_shares > 0 /\ sell_shares <= a.shares THEN sell_shares ELSE 0

SellShares(a, equity, close, target_pos) ==
    LET raw == RawSellShares(a, equity, close, target_pos)
        sell_shares == IF target_pos < 5 \/ (a.shares - raw) < 100
                       THEN a.shares ELSE raw
    IN  IF sell_shares > 0 /\ sell_shares <= a.shares THEN sell_shares ELSE 0

SellBranch_noreset(a, equity, close, signal, date, comm) ==
    LET target_pos == Max(0, signal.position)
        sell_shares == SellShares(a, equity, close, target_pos)
        sh == a.shares - sell_shares
    IN  IF sell_shares # 0
        THEN [acct |-> [cash |-> a.cash + Revenue(sell_shares, close, comm),
                        shares |-> sh,
                        avg_buy_price |-> a.avg_buy_price,
                        total_buy_cost |-> RatMulInt(a.avg_buy_price, sh),
                        max_price_since_buy |-> a.max_price_since_buy,
                        trades |-> Append(a.trades,
                            [date |-> date, action |-> "SELL", price |-> close,
                             shares |-> sell_shares, total_shares |-> sh,
                             risk |-> FALSE, reason |-> signal.reason])],
              branch |-> "sell", qty |-> sell_shares, cost |-> 0]
        ELSE [acct |-> a, branch |-> "sell_skipped", qty |-> 0, cost |-> 0]

SellBranch_twice(a, equity, close, signal, date, comm) ==
    LET target_pos == Max(0, signal.position)
        sell_shares == SellShares(a, equity, close, target_pos)
        sh == a.shares - sell_shares
        record == [date |-> date, action |-> "SELL", price |-> close,
                   shares |-> sell_shares, total_shares |-> sh,
                   risk |-> FALSE, reason |-> signal.reason]
    IN  IF sell_shares # 0
        THEN [acct |-> [cash |-> a.cash + Revenue(sell_shares, close, comm),
                        shares |-> sh,
                        avg_buy_price |-> IF sh = 0 THEN RatZero ELSE a.avg_buy_price,
                        total_buy_cost |-> IF sh = 0 THEN RatZero
                                           ELSE RatMulInt(a.avg_buy_price, sh),
                        max_price_since_buy |-> IF sh = 0 THEN 0
                                                ELSE a.max_price_since_buy,
                        trades |-> Append(Append(a.trades, record), record)],
              branch |-> "sell", qty |-> sell_shares, cost |-> 0]
        ELSE [acct |-> a, branch |-> "sell_skipped", qty |-> 0, cost |-> 0]

SellBranch(a, equity, close, signal, date, comm) ==
    LET target_pos == Max(0, signal.position)
        sell_shares == SellShares(a, equity, close, target_pos)
        sh == a.shares - sell_shares
    IN  IF sell_shares # 0
        THEN [acct |-> [cash |-> a.cash + Revenue(sell_shares, close, comm),
                        shares |-> sh,
                        avg_buy_price |-> IF sh = 0 THEN RatZero ELSE a.avg_buy_price,
                        total_buy_cost |-> IF sh = 0 THEN RatZero
                                           ELSE RatMulInt(a.avg_buy_price, sh),
                        max_price_since_buy |-> IF sh = 0 THEN 0
                                                ELSE a.max_price_since_buy,
                        trades |-> Append(a.trades,
                            [date |-> date, action |-> "SELL", price |-> close,
                             shares |-> sell_shares, total_shares |-> sh,
                             risk |-> FALSE, reason |-> signal.reason])],
              branch |-> "sell", qty |-> sell_shares, cost |-> 0]
        ELSE [acct |-> a, branch |-> "sell_skipped", qty |-> 0, cost |-> 0]

\* ------------------------------------------- backtest: forced liquidation
RiskLiquidate_keeppeak(a, close, date, reason, comm) ==
    [cash |-> a.cash + Revenue(a.shares, close, comm),
     shares |-> 0, avg_buy_price |-> RatZero, total_buy_cost |-> RatZero,
     max_price_since_buy |-> a.max_price_since_buy,
     trades |-> Append(a.trades,
         [date |-> date, action |-> "SELL", price |-> close,
          shares |-> a.shares, total_shares |-> 0,
          risk |-> TRUE, reason |-> reason])]

RiskLiquidate(a, close, date, reason, comm) ==
    [cash |-> a.cash + Revenue(a.shares, close, comm),
     shares |-> 0, avg_buy_price |-> RatZero, total_buy_cost |-> RatZero,
     max_price_since_buy |-> 0,
     trades |-> Append(a.trades,
         [date |-> date, action |-> "SELL", price |-> close,
          shares |-> a.shares, total_shares |-> 0,
          risk |-> TRUE, reason |-> reason])]

\* ------------------------------------------ backtest: the strategy signal
\* try: signal = self.analyze(window) / except Exception: HOLD
GuardedAnalyze_notry(outcome) ==
    IF outcome.raises THEN [action |-> "RAISED"] ELSE outcome.sig

GuardedAnalyze(outcome) ==
    IF outcome.raises THEN StrategySignal("HOLD", 0, "analyze_error", 50)
    ELSE outcome.sig

\* what the strategy under backtest may do on a bar
BuyPositions == {50, 90, 120}
SellPositions == {-10, 4, 50}
StrategyOutcomes ==
    {Raise}
    \cup {Return(StrategySignal("HOLD", 50, "signal", 50))}
    \cup {Return(StrategySignal("BUY", 70, "signal", p)) : p \in BuyPositions}
    \cup {Return(StrategySignal("SELL", 70, "signal", p)) : p \in SellPositions}

Account == [cash |-> cash, shares |-> shares, avg_buy_price |-> avg_buy_price,
            total_buy_cost |-> total_buy_cost,
            max_price_since_buy |-> max_price_since_buy, trades |-> trades]

NoDay == [branch |-> "none"]
SaIdle == [pc |-> "idle"]
EnsIdle == [pc |-> "idle"]

\* ------------------------------------------------------- backtest: actions
\* `len(df) < self.min_bars`
TooShort_offbyone(len) == len < min_bars - 1

TooShort(len) == len < min_bars

\* the call: arguments are fixed, the length check is made, locals are set
Backtest_Call ==
    /\ pc = "call"
    /\ IF TooShort(n)
       THEN /\ pc' = "done"
            /\ result' = [trades |-> << >>, final_value |-> initial_cash,
                          total_return |-> 0, annualized_return |-> 0,
                          max_drawdown |-> 0, win_rate |-> 0,
                          trade_count |-> 0, sharpe |-> 0]
       ELSE /\ pc' = "loop"
            /\ result' = result
    /\ UNCHANGED <<n, i, commission, stop_loss, trailing_stop, take_profit,
                   cash, shares, avg_buy_price, total_buy_cost,
                   max_price_since_buy, trades, equity_curve, last, scenario,
                   sa, ens>>

\* the strategy seen from outside, one analyze call further: "hold_only"
\* while it has only returned HOLD, "bought" once it has returned exactly one
\* BUY with position 0.9, "sold" once it has then returned exactly one SELL
\* with position 0.0, "other" for any other sequence of returns
ScenarioAfter(sc, outcome) ==
    IF outcome.raises THEN "other"
    ELSE IF outcome.sig.action = "HOLD" THEN sc
    ELSE IF outcome.sig.action = "BUY" /\ outcome.sig.position = 90
            /\ sc = "hold_only" THEN "bought"
    ELSE IF outcome.sig.action = "SELL" /\ outcome.sig.position = 0
            /\ sc = "bought" THEN "sold"
    ELSE "other"

\* one iteration of `for i in range(self.min_bars, len(df))`
Backtest_Day(close, outcome) ==
    /\ pc = "loop"
    /\ i < n
    /\ LET a == Account
           offered == IF outcome.raises THEN "RAISE" ELSE outcome.sig.action
           equity == cash + shares * close * Scale
           rc == RiskCheck(shares, avg_buy_price, max_price_since_buy, close,
                           stop_loss, trailing_stop, take_profit)
           a1 == [a EXCEPT !.max_price_since_buy = rc.peak]
           pre == [cash |-> cash, shares |-> shares,
                   avg_buy_price |-> avg_buy_price,
                   max_price_since_buy |-> max_price_since_buy,
                   ntrades |-> Len(trades)]
       IN  IF rc.risk_exit /\ shares > 0
           THEN LET b == RiskLiquidate(a1, close, i, rc.risk_reason, commission)
                IN  /\ cash' = b.cash
                    /\ shares' = b.shares
                    /\ avg_buy_price' = b.avg_buy_price
                    /\ total_buy_cost' = b.total_buy_cost
                    /\ max_price_since_buy' = b.max_price_since_buy
                    /\ trades' = b.trades
                    /\ equity_curve' = Append(equity_curve, b.cash)
                    /\ last' = [branch |-> "risk", date |-> i, close |-> close,
                                analyzed |-> FALSE, raised |-> FALSE,
                                offered |-> offered,
                                pre |-> pre, qty |-> shares, cost |-> 0]
                    /\ scenario' = scenario
                    /\ pc' = "loop"
                    /\ i' = i + 1
           ELSE LET signal == GuardedAnalyze(outcome)
                IN  IF signal.action = "RAISED"
                    THEN \* the exception leaves backtest: no result
                         /\ pc' = "aborted"
                         /\ max_price_since_buy' = rc.peak
                         /\ last' = [branch |-> "raised", date |-> i,
                                     close |-> close, analyzed |-> TRUE,
                                     raised |-> TRUE, offered |-> offered,
                                     pre |-> pre, qty |-> 0, cost |-> 0]
                         /\ scenario' = ScenarioAfter(scenario, outcome)
                         /\ UNCHANGED <<i, cash, shares, avg_buy_price,
                                        total_buy_cost, trades, equity_curve>>
                    ELSE LET r == IF signal.action = "BUY"
                                  THEN BuyBranch(a1, equity, close, signal, i,
                                                 commission)
                                  ELSE IF signal.action = "SELL" /\ shares > 0
                                  THEN SellBranch(a1, equity, close, signal, i,
                                                  commission)
                                  ELSE [acct |-> a1, branch |-> "hold",
                                        qty |-> 0, cost |-> 0]
                             b == r.acct
                         IN  /\ cash' = b.cash
                             /\ shares' = b.shares
                             /\ avg_buy_price' = b.avg_buy_price
                             /\ total_buy_cost' = b.total_buy_cost
                             /\ max_price_since_buy' = b.max_price_since_buy
                             /\ trades' = b.trades
                             /\ equity_curve' = Append(equity_curve,
                                    b.cash + b.shares * close * Scale)
                             /\ last' = [branch |-> r.branch, date |-> i,
                                         close |-> close, analyzed |-> TRUE,
                                         raised |-> outcome.raises,
                                         offered |-> offered,
                                         signal |-> signal, pre |-> pre,
                                         qty |-> r.qty, cost |-> r.cost]
                             /\ scenario' = ScenarioAfter(scenario, outcome)
                             /\ pc' = "loop"
                             /\ i' = i + 1
    /\ UNCHANGED <<n, commission, stop_loss, trailing_stop, take_profit,
                   result, sa, ens>>

\* round(x, 2) of a money amount: the nearest whole unit, ties to even
Round2_truncate(x) == x \div Scale

Round2(x) ==
    LET q == x \div Scale
        r == x % Scale
    IN  IF 2 * r > Scale \/ (2 * r = Scale /\ q % 2 = 1) THEN q + 1 ELSE q

\* after the loop: final value and the returned dict
Backtest_Return(final_close) ==
    /\ pc = "loop"
    /\ i = n
    /\ IF last.branch # "none" THEN final_close = last.close ELSE TRUE
    /\ LET sell_trades == SelectSeq(trades, LAMBDA t : t.action = "SELL")
       IN  result' = [trades |-> trades,
                      final_value |-> Round2(cash + shares * final_close * Scale),
                      trade_count |-> Len(sell_trades)]
    /\ pc' = "done"
    /\ UNCHANGED <<n, i, commission, stop_loss, trailing_stop, take_profit,
                   cash, shares, avg_buy_price, total_buy_cost,
                   max_price_since_buy, trades, equity_curve, last, scenario,
                   sa, ens>>

BtInit ==
    /\ pc = "call"
    /\ n \in 0..MaxBars
    /\ i = min_bars
    /\ commission \in Commissions
    /\ stop_loss \in StopLosses
    /\ trailing_stop \in TrailingStops
    /\ take_profit \in TakeProfits
    /\ cash = initial_cash * Scale
    /\ shares = 0
    /\ avg_buy_price = RatZero
    /\ total_buy_cost = RatZero
    /\ max_price_since_buy = 0
    /\ trades = << >>
    /\ equity_curve = << >>
    /\ result = [none |-> TRUE]
    /\ last = NoDay
    /\ scenario = "hold_only"

Init == BtInit /\ sa = SaIdle /\ ens = EnsIdle

Next ==
    \/ Backtest_Call
    \/ \E close \in Closes, outcome \in StrategyOutcomes : Backtest_Day(close, outcome)
    \/ \E final_close \in Closes : Backtest_Return(final_close)

Spec == Init /\ [][Next]_vars

\* the loop is straight-line sequential code: an enabled step is taken
FairSpec == Init /\ [][Next]_vars /\ WF_vars(Next)

\* ===================================================== claims on backtest
DayDone == pc \in {"loop", "done", "aborted"} /\ last.branch # "none"
LastTrade == trades[Len(trades)]
PreEquity == last.pre.cash + last.pre.shares * last.close * Scale

\* C1  No overdraw: cash is never negative, and a BUY whose cost
\* add_shares*close*(1+commission) exceeds the cash on hand books nothing:
\* cash, shares and the trade log are as before that day's attempt.
C1_NoOverdraw ==
    /\ cash >= 0
    /\ (DayDone /\ last.analyzed /\ ~last.raised /\ last.signal.action = "BUY"
        /\ last.qty * last.close * (Scale + commission) > last.pre.cash)
       => /\ cash = last.pre.cash
          /\ shares = last.pre.shares
          /\ Len(trades) = last.pre.ntrades

C1_Witness ==
    /\ DayDone /\ last.branch = "buy_rejected"
    /\ last.qty > 0
    /\ last.qty * last.close * (Scale + commission) > last.pre.cash

\* C2  No overselling: shares is never negative, a SELL (strategy or risk)
\* never books more than was held, and a strategy SELL sized so that less
\* than one lot would remain books exactly the holdings.
C2_NoOversell ==
    /\ shares >= 0
    /\ (DayDone /\ last.branch \in {"sell", "risk"})
       => /\ last.qty <= last.pre.shares
          /\ shares = last.pre.shares - last.qty
          /\ LastTrade.shares = last.qty
    /\ (DayDone /\ last.analyzed /\ ~last.raised /\ last.signal.action = "SELL"
        /\ last.pre.shares > 0
        /\ RawSellShares([shares |-> last.pre.shares], PreEquity, last.close,
                         last.signal.position) > last.pre.shares - 100)
       => /\ last.qty = last.pre.shares
          /\ shares = 0

C2_Witness ==
    /\ DayDone /\ last.branch = "sell"
    /\ RawSellShares([shares |-> last.pre.shares], PreEquity, last.close,
                     last.signal.position) >= last.pre.shares
    /\ last.qty = last.pre.shares /\ last.pre.shares > 0 /\ shares = 0

\* C3  Risk control pre-empts the strategy: on a day with a holding whose
\* close is at or below avg_buy_price*(1 - stop_loss), the position is
\* liquidated by the risk branch, the booked trade carries the risk tag and
\* analyze is not called, whatever the strategy would have answered.
C3_RiskPreempts ==
    (DayDone /\ last.pre.shares > 0 /\ stop_loss > 0
     /\ (last.close * last.pre.avg_buy_price.d - last.pre.avg_buy_price.n) * 100
           <= -(stop_loss * last.pre.avg_buy_price.n))
    => /\ last.branch = "risk"
       /\ ~last.analyzed
       /\ Len(trades) = last.pre.ntrades + 1
       /\ LastTrade.risk /\ LastTrade.action = "SELL"
       /\ LastTrade.date = last.date
       /\ shares = 0

C3_Witness ==
    /\ DayDone /\ last.branch = "risk" /\ last.offered = "SELL"
    /\ stop_loss > 0
    /\ (last.close * last.pre.avg_buy_price.d - last.pre.avg_buy_price.n) * 100
           <= -(stop_loss * last.pre.avg_buy_price.n)
    /\ LastTrade.risk

\* the rules breached on the latest day, from the account before the day
PrePeak == Max(last.pre.max_price_since_buy, last.close)
BreachedStopLoss == StopLossHit(last.close, last.pre.avg_buy_price, stop_loss)
BreachedTrailing == TrailingStopHit(last.close, last.pre.avg_buy_price,
                                    PrePeak, trailing_stop)
BreachedTakeProfit == TakeProfitHit(last.close, last.pre.avg_buy_price,
                                    take_profit)

\* C4  First match wins: the reason logged for a risk liquidation is that of
\* the first breached rule in the order stop-loss, trailing stop,
\* take-profit.
C4_FirstMatchWins ==
    (DayDone /\ last.branch = "risk")
    => LastTrade.reason =
          IF BreachedStopLoss THEN "hard_stop_loss"
          ELSE IF BreachedTrailing THEN "trailing_stop"
          ELSE "take_profit"

\* C5  A risk liquidation sells the whole holding at the close for
\* shares*close*(1-commission-stamp_tax), zeroes shares, avg_buy_price and
\* the peak, records the day's equity (the cash), books exactly one trade,
\* and no BUY in the log carries the date of a risk liquidation.
C5_RiskLiquidation ==
    /\ (DayDone /\ last.branch = "risk")
       => /\ shares = 0
          /\ avg_buy_price = RatZero
          /\ max_price_since_buy = 0
          /\ cash = last.pre.cash
                    + last.pre.shares * last.close * (Scale - commission - stamp_tax)
          /\ Len(equity_curve) = i - min_bars
          /\ equity_curve[Len(equity_curve)] = cash
          /\ Len(trades) = last.pre.ntrades + 1
          /\ LastTrade.action = "SELL" /\ LastTrade.shares = last.pre.shares
          /\ LastTrade.price = last.close /\ LastTrade.date = last.date
    /\ \A j, k \in DOMAIN trades :
          (trades[j].risk /\ trades[k].action = "BUY")
          => trades[j].date # trades[k].date

C5_Witness ==
    /\ DayDone /\ last.branch = "risk" /\ last.offered = "BUY"
    /\ last.pre.shares > 0 /\ shares = 0
    /\ \E k \in DOMAIN trades : trades[k].action = "BUY"

\* C6  A run always completes: a day on which analyze raises is a HOLD day
\* (account and trade log unchanged, equity recorded, the loop goes on), the
\* exception never leaves backtest, and every run ends with a result.
C6_FailureIsHold ==
    /\ pc # "aborted"
    /\ (DayDone /\ last.raised)
       => /\ last.branch = "hold"
          /\ cash = last.pre.cash
          /\ shares = last.pre.shares
          /\ avg_buy_price = last.pre.avg_buy_price
          /\ Len(trades) = last.pre.ntrades
          /\ Len(equity_curve) = i - min_bars
          /\ i = last.date + 1
    /\ (pc = "done" /\ n >= min_bars)
       => /\ result.trades = trades
          /\ (last.branch # "none"
              => result.final_value = Round2(cash + shares * last.close * Scale))
          /\ (last.branch = "none" => result.final_value = Round2(cash))

C6_RunCompletes == [](C6_FailureIsHold) /\ <>(pc = "done")

C6_Witness ==
    /\ pc = "done" /\ last.branch # "none" /\ last.raised
    /\ Len(trades) > 0
    /\ result.trades = trades

\* C9  Lot rounding: every booked trade has a positive multiple of 100 as
\* its quantity and shares is a multiple of 100 in every state.
C9_LotRounding ==
    /\ shares % 100 = 0
    /\ \A k \in DOMAIN trades :
          trades[k].shares > 0 /\ trades[k].shares % 100 = 0

C9_Witness ==
    /\ \E k \in DOMAIN trades : trades[k].action = "BUY"
    /\ \E k \in DOMAIN trades : trades[k].action = "SELL" /\ ~trades[k].risk
                                /\ trades[k].total_shares > 0
    /\ \E k \in DOMAIN trades : trades[k].risk

\* C17  A series shorter than min_bars gives a zero-activity result without
\* error: empty trade list, final_value equal to the initial cash,
\* trade_count 0 and every return/drawdown/win-rate/sharpe metric 0, and
\* analyze is never called (no loop iteration runs).
C17_InsufficientHistory ==
    (n < min_bars /\ pc # "call")
    => /\ pc = "done"
       /\ result.trades = << >>
       /\ result.final_value = initial_cash
       /\ result.trade_count = 0
       /\ result.total_return = 0 /\ result.annualized_return = 0
       /\ result.max_drawdown = 0 /\ result.win_rate = 0 /\ result.sharpe = 0
       /\ last = NoDay
       /\ trades = << >> /\ equity_curve = << >>

C17_Witness ==
    /\ pc = "done" /\ n < min_bars
    /\ result.trade_count = 0 /\ result.final_value = initial_cash

\* the account is run with the three risk rules off
RiskOff == stop_loss = 0 /\ trailing_stop = 0 /\ take_profit = 0
\* a BUY of 0.9 of the initial cash is affordable with the commission on top
Affordable == 90 * (Scale + commission) <= 100 * Scale
\* what the end-to-end scenario leaves in the trade log
OneRoundTrip ==
    /\ Len(trades) = 2
    /\ trades[1].action = "BUY" /\ ~trades[1].risk
    /\ trades[1].shares
          = ((initial_cash * 90) \div (trades[1].price * 100 * 100)) * 100
    /\ trades[2].action = "SELL" /\ ~trades[2].risk
    /\ trades[2].shares = trades[1].shares
    /\ result.trades = trades
    /\ result.trade_count = 1
    /\ shares = 0

\* C19 as stated: after the HOLD / one BUY 0.9 / one SELL 0.0 scenario with
\* risk controls off, the log is one BUY of floor(cash*0.9/p/100)*100 shares
\* and one SELL of all of them, trade_count is 1, shares is 0 and final_value
\* equals the cash held after the SELL.
C19_EndToEndExact ==
    (pc = "done" /\ scenario = "sold" /\ RiskOff /\ Affordable)
    => /\ OneRoundTrip
       /\ result.final_value * Scale = cash

\* C19  End to end, risk controls off and the BUY affordable: a strategy that
\* returns HOLD except one BUY with position 0.9 at price p and later one
\* SELL with position 0.0 leaves one BUY of floor(cash*0.9/p/100)*100 shares
\* followed by one SELL of all of them, trade_count 1, shares 0, and
\* final_value equal to the cash held after the SELL rounded to two decimals.
C19_EndToEnd ==
    (pc = "done" /\ scenario = "sold" /\ RiskOff /\ Affordable)
    => /\ OneRoundTrip
       /\ 2 * (result.final_value * Scale - cash) <= Scale
       /\ 2 * (cash - result.final_value * Scale) <= Scale

C19_Witness ==
    /\ pc = "done" /\ scenario = "sold" /\ RiskOff /\ Affordable
    /\ Len(trades) = 2 /\ shares = 0
    /\ cash % Scale # 0
    /\ result.final_value = Round2(cash)

\* C20  Trailing stop: on every day with a holding and trailing_stop > 0 the
\* peak is first raised to max(peak, close) and the position is liquidated
\* whenever (peak - close)/peak >= trailing_stop, also when the price never
\* rose above the average buy price since entry.
C20_TrailingStop ==
    (DayDone /\ last.pre.shares > 0 /\ trailing_stop > 0
     /\ (PrePeak - last.close) * 100 >= trailing_stop * PrePeak)
    => last.branch = "risk"

\* the latest day was a day on which the strategy answered with this action
Answered(action) ==
    DayDone /\ last.analyzed /\ ~last.raised /\ last.signal.action = action
\* one lot at the day's close and the position held before the day, in
\* 1/Scale units
OneLot == 100 * last.close * Scale
PreValue == last.pre.shares * last.close * Scale
PostEquity == cash + shares * last.close * Scale

\* C21  BUY sizing: the target weight is min(0.95, signal.position); a BUY is
\* booked only if delta = equity*target_weight - shares*close is at least one
\* lot, it then adds exactly floor(delta/close/100)*100 shares, and after it
\* shares*close is at most 0.95 of the pre-trade equity.
C21_BuySizing ==
    Answered("BUY")
    => LET target_weight == IF last.signal.position < 95
                            THEN last.signal.position ELSE 95
           delta == PreEquity * target_weight - PreValue * 100
           lots == delta \div (OneLot * 100)
       IN  /\ last.branch \in {"buy", "buy_rejected", "buy_skipped"}
           /\ last.branch = "buy"
              => /\ delta >= OneLot * 100
                 /\ last.qty = lots * 100
                 /\ shares = last.pre.shares + last.qty
                 /\ shares * last.close * Scale * 100 <= 95 * PreEquity
           /\ delta < OneLot * 100
              => /\ last.branch = "buy_skipped"
                 /\ shares = last.pre.shares
                 /\ Len(trades) = last.pre.ntrades
           /\ (/\ delta >= OneLot * 100
               /\ lots * 100 * last.close * (Scale + commission) <= last.pre.cash)
              => last.branch = "buy"

C21_Witness ==
    /\ Answered("BUY") /\ last.branch = "buy"
    /\ last.signal.position = 100
    /\ last.pre.shares > 0
    /\ shares = last.pre.shares + last.qty

\* C22  SELL sizing without dust: on a SELL signal with a holding, if
\* signal.position < 0.05 or fewer than 100 shares would remain after selling
\* floor(delta/close/100)*100, with delta = shares*close -
\* equity*signal.position, the whole holding is sold; otherwise exactly that
\* many shares are sold (none when that is not positive); after any SELL the
\* account holds 0 or at least 100 shares.
C22_SellSizing ==
    (Answered("SELL") /\ last.pre.shares > 0)
    => LET delta == PreValue * 100 - PreEquity * last.signal.position
           size == (delta \div (OneLot * 100)) * 100
       IN  /\ IF last.signal.position < 5 \/ last.pre.shares - size < 100
              THEN /\ last.branch = "sell"
                   /\ last.qty = last.pre.shares
                   /\ shares = 0
              ELSE IF size > 0
              THEN /\ last.branch = "sell"
                   /\ last.qty = size
                   /\ shares = last.pre.shares - size
              ELSE /\ last.branch = "sell_skipped"
                   /\ shares = last.pre.shares
           /\ shares = 0 \/ shares >= 100

C22_Witness ==
    /\ Answered("SELL") /\ last.branch = "sell"
    /\ last.signal.position >= 5
    /\ last.qty < last.pre.shares
    /\ shares >= 100

\* C23  Cost basis: at the end of every day, shares = 0 implies avg_buy_price
\* = 0 and peak = 0; with a holding, avg_buy_price is the share-weighted
\* average of what the held lots were bought at: a BUY makes it
\* (old_cost + add_shares*close)/new_shares, a partial SELL leaves it as it
\* was, and a day without a trade does not touch it.
C23_CostBasis ==
    /\ shares = 0 => (avg_buy_price = RatZero /\ max_price_since_buy = 0)
    /\ shares > 0 => avg_buy_price.n * shares * total_buy_cost.d
                        = total_buy_cost.n * avg_buy_price.d
    /\ (DayDone /\ last.branch = "buy")
       => avg_buy_price.n * last.pre.avg_buy_price.d * shares
             = avg_buy_price.d
                  * (last.pre.avg_buy_price.n * last.pre.shares
                     + last.qty * last.close * last.pre.avg_buy_price.d)
    /\ (DayDone /\ last.branch = "sell" /\ shares > 0)
       => avg_buy_price = last.pre.avg_buy_price
    /\ (DayDone /\ last.branch \in {"hold", "buy_skipped", "buy_rejected",
                                    "sell_skipped"})
       => avg_buy_price = last.pre.avg_buy_price

C23_Witness ==
    /\ DayDone /\ last.branch = "sell" /\ shares > 0
    /\ \A c \in Closes : avg_buy_price.n # c * avg_buy_price.d
    /\ avg_buy_price = last.pre.avg_buy_price

\* C24  Fees are the only loss at a trade: a BUY takes exactly
\* add_shares*close*(1+commission) from cash, a SELL or risk liquidation adds
\* exactly sold*close*(1-commission-stamp_tax), nothing else changes cash;
\* equity at the day's close drops by exactly the fee on a trade day and is
\* unchanged on a day without a trade.
C24_FeesOnly ==
    DayDone
    => /\ last.branch = "buy"
          => /\ cash = last.pre.cash
                          - last.qty * last.close * (Scale + commission)
             /\ PostEquity = PreEquity - last.qty * last.close * commission
       /\ last.branch \in {"sell", "risk"}
          => /\ cash = last.pre.cash
                          + last.qty * last.close
                               * (Scale - commission - stamp_tax)
             /\ PostEquity = PreEquity
                                - last.qty * last.close
                                     * (commission + stamp_tax)
       /\ last.branch \notin {"buy", "sell", "risk"}
          => /\ cash = last.pre.cash
             /\ shares = last.pre.shares
             /\ PostEquity = PreEquity
       /\ pc # "aborted"
          => equity_curve[Len(equity_curve)] = PostEquity

C24_Witness ==
    /\ DayDone /\ last.branch = "sell" /\ shares > 0
    /\ Len(trades) = 3
    /\ PostEquity = PreEquity - last.qty * last.close * (commission + stamp_tax)

\* C25  The trade log is append-only and ordered: a step books at most one
\* record, and only as a day passes; records carry strictly increasing
\* dates; a record once appended is never modified or removed.
C25_Ordered ==
    \A j, k \in DOMAIN trades : j < k => trades[j].date < trades[k].date
C25_TradeLog ==
    /\ [](C25_Ordered)
    /\ [][/\ Len(trades') \in {Len(trades), Len(trades) + 1}
          /\ SubSeq(trades', 1, Len(trades)) = trades
          /\ Len(trades') = Len(trades) + 1
             => (i' = i + 1 /\ trades'[Len(trades')].date = i)]_vars

C25_Witness ==
    /\ pc = "done" /\ Len(trades) = 2
    /\ trades[1].date + 1 < trades[2].date
    /\ result.trades = trades

\* C28  With commission <= 0.05 a BUY that passes the one-lot threshold is
\* never rejected for lack of cash: its cost add_shares*close*(1+commission)
\* never exceeds the cash on hand.
C28_NeverCashRejected ==
    commission <= 50
    => /\ last.branch # "buy_rejected"
       /\ (Answered("BUY") /\ last.qty > 0)
          => /\ last.qty * last.close * (Scale + commission) <= last.pre.cash
             /\ last.branch = "buy"

C28_Witness ==
    /\ commission = 50
    /\ Answered("BUY") /\ last.branch = "buy"
    /\ last.signal.position = 100
    /\ last.pre.shares > 0
    /\ cash < OneLot

\* C29  Signal direction is respected: a BUY never decreases shares and a
\* SELL never increases them; a BUY whose target weight is at or below the
\* current weight, and a SELL whose target position is at or above the
\* current weight (position >= 0.05), book no trade and leave cash, shares
\* and avg_buy_price as they were.
C29_Untouched ==
    /\ cash = last.pre.cash
    /\ shares = last.pre.shares
    /\ avg_buy_price = last.pre.avg_buy_price
    /\ Len(trades) = last.pre.ntrades
C29_Direction ==
    /\ Answered("BUY") => shares >= last.pre.shares
    /\ Answered("SELL") => shares <= last.pre.shares
    /\ (/\ Answered("BUY")
        /\ (IF last.signal.position < 95 THEN last.signal.position ELSE 95)
              * PreEquity <= PreValue * 100)
       => C29_Untouched
    /\ (/\ Answered("SELL")
        /\ last.signal.position >= 5
        /\ last.signal.position * PreEquity >= PreValue * 100)
       => C29_Untouched

C29_Witness ==
    /\ Answered("SELL") /\ last.pre.shares > 0
    /\ last.signal.position >= 5
    /\ last.signal.position * PreEquity > PreValue * 100
    /\ C29_Untouched


\* ==================================================== Strategy.safe_analyze
Actions == {"BUY", "SELL", "HOLD"}
RawValues == {-20, 0, 70, 100, 130}     \* what a strategy may compute
HistoryLengths == 0..MaxBars            \* len(df)
StrategyMinBars == {0, 2, 3}            \* strategy.min_bars

\* what analyze of the strategy at hand does when it is called
Behaviours ==
    {[raises |-> TRUE]}
    \cup {[raises |-> FALSE, action |-> a, confidence |-> c, position |-> p] :
             a \in Actions, c \in RawValues, p \in RawValues}

\* strategy.analyze(df): raises, or builds the signal it returns
Analyze(b) ==
    IF b.raises THEN Raise
    ELSE Return(StrategySignal(b.action, b.confidence, "signal", b.position))

SafeAnalyze_nolencheck(df_len, mb, b) ==
    LET outcome == Analyze(b)
    IN  IF outcome.raises
        THEN [raised |-> FALSE, analyze_called |-> TRUE,
              sig |-> StrategySignal("HOLD", 0, "analyze_error", 50)]
        ELSE [raised |-> FALSE, analyze_called |-> TRUE, sig |-> outcome.sig]

\* safe_analyze(df): the length check, then analyze under try/except
SafeAnalyze(df_len, mb, b) ==
    IF df_len < mb
    THEN [raised |-> FALSE, analyze_called |-> FALSE,
          sig |-> StrategySignal("HOLD", 0, "insufficient_data", 50)]
    ELSE LET outcome == Analyze(b)
         IN  IF outcome.raises
             THEN [raised |-> FALSE, analyze_called |-> TRUE,
                   sig |-> StrategySignal("HOLD", 0, "analyze_error", 50)]
             ELSE [raised |-> FALSE, analyze_called |-> TRUE,
                   sig |-> outcome.sig]

SafeAnalyze_Call ==
    /\ sa.pc = "call"
    /\ sa' = [sa EXCEPT !.pc = "done",
                        !.ret = SafeAnalyze(sa.df_len, sa.min_bars, sa.behaviour)]
    /\ UNCHANGED <<btVars, ens>>

BtIdle ==
    /\ pc = "idle" /\ n = 0 /\ i = 0
    /\ commission = 0 /\ stop_loss = 0 /\ trailing_stop = 0 /\ take_profit = 0
    /\ cash = 0 /\ shares = 0
    /\ avg_buy_price = RatZero /\ total_buy_cost = RatZero
    /\ max_price_since_buy = 0
    /\ trades = << >> /\ equity_curve = << >>
    /\ result = [none |-> TRUE] /\ last = NoDay /\ scenario = "hold_only"

SaInit ==
    /\ BtIdle
    /\ ens = EnsIdle
    /\ \E l \in HistoryLengths, mb \in StrategyMinBars, b \in Behaviours :
          sa = [pc |-> "call", df_len |-> l, min_bars |-> mb, behaviour |-> b,
                ret |-> [none |-> TRUE]]

SaNext == SafeAnalyze_Call

SaSpec == SaInit /\ [][SaNext]_vars

DegenerateHold(sig) ==
    sig.action = "HOLD" /\ sig.confidence = 0 /\ sig.position = 50

\* C7  safe_analyze is total: it returns a signal and never raises; with
\* len(df) < min_bars it returns HOLD, confidence 0, position 0.5 and does
\* not call analyze; if analyze raises it returns the same degenerate HOLD.
C7_SafeAnalyzeTotal ==
    sa.pc = "done"
    => /\ ~sa.ret.raised
       /\ sa.ret.sig.action \in Actions
       /\ (sa.df_len < sa.min_bars
           => DegenerateHold(sa.ret.sig) /\ ~sa.ret.analyze_called)
       /\ (sa.df_len >= sa.min_bars /\ sa.behaviour.raises
           => DegenerateHold(sa.ret.sig) /\ sa.ret.analyze_called)

C7_Witness ==
    /\ sa.pc = "done" /\ sa.df_len < sa.min_bars /\ sa.behaviour.raises
    /\ DegenerateHold(sa.ret.sig) /\ ~sa.ret.analyze_called

\* C8  A constructed StrategySignal has confidence and position in [0,1]:
\* a value below 0 is stored as 0, a value above 1 as 1, any other as is.
C8_Clamped ==
    (sa.pc = "done" /\ sa.ret.analyze_called /\ ~sa.behaviour.raises)
    => LET stored(x) == IF x < 0 THEN 0 ELSE IF x > 100 THEN 100 ELSE x
       IN  /\ sa.ret.sig.confidence = stored(sa.behaviour.confidence)
           /\ sa.ret.sig.position = stored(sa.behaviour.position)
           /\ sa.ret.sig.confidence \in 0..100
           /\ sa.ret.sig.position \in 0..100

C8_Witness ==
    /\ sa.pc = "done" /\ sa.ret.analyze_called /\ ~sa.behaviour.raises
    /\ sa.behaviour.confidence > 100 /\ sa.behaviour.position < 0
    /\ sa.ret.sig.confidence = 100 /\ sa.ret.sig.position = 0


\* ========================================================= EnsembleStrategy
\* sub_strategies, in dict order, and the default weights (in tenths)
SubStrategies == <<"MA", "MACD", "RSI", "BOLL", "KDJ", "DUAL", "PE">>
Weights == <<12, 11, 10, 13, 9, 15, 10>>
\* a `weights` dict passed to the constructor instead (in tenths)
CustomWeights == <<10, 50, 10, 0, 10, 10, 10>>
WeightVectors == {Weights, CustomWeights}
Members == 1..MaxMembers

Modes == {"majority", "unanimous", "any", "weighted"}
BuyThresholds == {0, 50, 150}
SellThresholds == {-10, 34, 50}

\* what member k does on the history at hand: too little history for its
\* min_bars, analyze raises, or analyze returns a signal
MemberConfidence == <<60, 70, 80, 70, 60, 80, 70>>
MemberBehaviours(k) ==
    { [kind |-> "short"], [kind |-> "raise"],
      [kind |-> "vote", action |-> "HOLD", confidence |-> 50, position |-> 50],
      [kind |-> "vote", action |-> "BUY", confidence |-> MemberConfidence[k],
       position |-> 80],
      [kind |-> "vote", action |-> "SELL", confidence |-> MemberConfidence[k],
       position |-> 20] }

RECURSIVE Sum(_, _)
Sum(f, S) == IF S = {} THEN 0
             ELSE LET x == CHOOSE y \in S : TRUE IN f[x] + Sum(f, S \ {x})

\* round(num/den, 2) of a value in hundredths: nearest, ties to even
RoundRat(num, den) ==
    LET q == num \div den
        r == num % den
    IN  IF 2 * r > den \/ (2 * r = den /\ q % 2 = 1) THEN q + 1 ELSE q

\* the loop over sub_strategies: the members that end up in `votes`
Voters(members) == {k \in DOMAIN members : members[k].kind = "vote"}
VoteOf(members, k) ==
    StrategySignal(members[k].action, members[k].confidence, "signal",
                   members[k].position)
VotersFor(members, action) ==
    {k \in Voters(members) : VoteOf(members, k).action = action}
ConfSum(members, S) ==
    Sum([k \in S |-> VoteOf(members, k).confidence], S)

\* a mode returns (action, conf, reason) or raises; conf is the fraction
\* conf.n / conf.d of hundredths
Decision(action, num, den, reason) ==
    [raises |-> FALSE, action |-> action, conf |-> Rat(num, den),
     reason |-> reason]

\* _majority(buy_votes, sell_votes, total); a division by len(buy_votes) = 0
\* raises ZeroDivisionError
MajorityVote_zeroconf(members, bt, st) ==
    LET buy_votes == VotersFor(members, "BUY")
        sell_votes == VotersFor(members, "SELL")
        total == Cardinality(Voters(members))
        nb == Cardinality(buy_votes)
        ns == Cardinality(sell_votes)
    IN  IF nb * 100 >= bt * total
        THEN IF nb = 0 THEN Decision("BUY", 0, 1, "majority_buy")
             ELSE Decision("BUY", ConfSum(members, buy_votes), nb, "majority_buy")
        ELSE IF ns * 100 >= st * total
        THEN IF ns = 0 THEN Decision("SELL", 0, 1, "majority_sell")
             ELSE Decision("SELL", ConfSum(members, sell_votes), ns, "majority_sell")
        ELSE Decision("HOLD", 50, 1, "split")

MajorityVote(members, bt, st) ==
    LET buy_votes == VotersFor(members, "BUY")
        sell_votes == VotersFor(members, "SELL")
        total == Cardinality(Voters(members))
        nb == Cardinality(buy_votes)
        ns == Cardinality(sell_votes)
    IN  IF nb * 100 >= bt * total
        THEN IF nb = 0 THEN Raise
             ELSE Decision("BUY", ConfSum(members, buy_votes), nb, "majority_buy")
        ELSE IF ns * 100 >= st * total
        THEN IF ns = 0 THEN Raise
             ELSE Decision("SELL", ConfSum(members, sell_votes), ns, "majority_sell")
        ELSE Decision("HOLD", 50, 1, "split")

\* _unanimous(buy_votes, sell_votes, total)
UnanimousVote_ignorehold(members) ==
    LET buy_votes == VotersFor(members, "BUY")
        sell_votes == VotersFor(members, "SELL")
    IN  IF buy_votes # {} /\ sell_votes = {}
        THEN Decision("BUY", ConfSum(members, buy_votes),
                      Cardinality(buy_votes), "unanimous_buy")
        ELSE IF sell_votes # {} /\ buy_votes = {}
        THEN Decision("SELL", ConfSum(members, sell_votes),
                      Cardinality(sell_votes), "unanimous_sell")
        ELSE Decision("HOLD", 50, 1, "no_consensus")

UnanimousVote(members) ==
    LET buy_votes == VotersFor(members, "BUY")
        sell_votes == VotersFor(members, "SELL")
        total == Cardinality(Voters(members))
    IN  IF Cardinality(buy_votes) = total
        THEN Decision("BUY", ConfSum(members, buy_votes), total, "unanimous_buy")
        ELSE IF Cardinality(sell_votes) = total
        THEN Decision("SELL", ConfSum(members, sell_votes), total, "unanimous_sell")
        ELSE Decision("HOLD", 50, 1, "no_consensus")

MaxConf(members, S) ==
    CHOOSE c \in {VoteOf(members, k).confidence : k \in S} :
        \A k \in S : VoteOf(members, k).confidence <= c

\* _any(buy_votes, sell_votes)
AnyVote_buyfirst(members) ==
    LET buy_votes == VotersFor(members, "BUY")
        sell_votes == VotersFor(members, "SELL")
    IN  IF buy_votes # {}
        THEN Decision("BUY", MaxConf(members, buy_votes), 1, "any_buy")
        ELSE IF sell_votes # {}
        THEN Decision("SELL", MaxConf(members, sell_votes), 1, "any_sell")
        ELSE Decision("HOLD", 50, 1, "all_hold")

AnyVote(members) ==
    LET buy_votes == VotersFor(members, "BUY")
        sell_votes == VotersFor(members, "SELL")
    IN  IF sell_votes # {}
        THEN Decision("SELL", MaxConf(members, sell_votes), 1, "any_sell")
        ELSE IF buy_votes # {}
        THEN Decision("BUY", MaxConf(members, buy_votes), 1, "any_buy")
        ELSE Decision("HOLD", 50, 1, "all_hold")

\* _weighted(buy_votes, sell_votes, total); scores are in 1/1000
Score(members, weights, S) ==
    Sum([k \in S |-> weights[k] * VoteOf(members, k).confidence], S)

WeightedVote_tiebuy(members, weights, bt, st) ==
    LET buy_score == Score(members, weights, VotersFor(members, "BUY"))
        sell_score == Score(members, weights, VotersFor(members, "SELL"))
        total_active == buy_score + sell_score
    IN  IF total_active = 0 THEN Decision("HOLD", 50, 1, "no_direction")
        ELSE IF buy_score >= sell_score /\ buy_score * 100 >= bt * total_active
        THEN Decision("BUY", RoundRat(buy_score * 100, total_active), 1,
                      "weighted_buy")
        ELSE IF sell_score > buy_score /\ sell_score * 100 >= st * total_active
        THEN Decision("SELL", RoundRat(sell_score * 100, total_active), 1,
                      "weighted_sell")
        ELSE Decision("HOLD", 50, 1, "neutral")

WeightedVote(members, weights, bt, st) ==
    LET buy_score == Score(members, weights, VotersFor(members, "BUY"))
        sell_score == Score(members, weights, VotersFor(members, "SELL"))
        total_active == buy_score + sell_score
    IN  IF total_active = 0 THEN Decision("HOLD", 50, 1, "no_direction")
        ELSE IF buy_score > sell_score /\ buy_score * 100 >= bt * total_active
        THEN Decision("BUY", RoundRat(buy_score * 100, total_active), 1,
                      "weighted_buy")
        ELSE IF sell_score > buy_score /\ sell_score * 100 >= st * total_active
        THEN Decision("SELL", RoundRat(sell_score * 100, total_active), 1,
                      "weighted_sell")
        ELSE Decision("HOLD", 50, 1, "neutral")

\* avg_position: the weighted mean of the position of every vote, as the
\* fraction [n, d] of hundredths; 0.5 unless total_weight > 0
AvgPosition_directional(members, weights) ==
    LET votes == VotersFor(members, "BUY") \cup VotersFor(members, "SELL")
        total_weight == Sum([k \in votes |-> weights[k]], votes)
        position_sum == Sum([k \in votes |->
                               weights[k] * VoteOf(members, k).position], votes)
    IN  IF total_weight > 0 THEN [n |-> position_sum, d |-> total_weight]
        ELSE [n |-> 50, d |-> 1]

AvgPosition(members, weights) ==
    LET votes == Voters(members)
        total_weight == Sum([k \in votes |-> weights[k]], votes)
        position_sum == Sum([k \in votes |->
                               weights[k] * VoteOf(members, k).position], votes)
    IN  IF total_weight > 0 THEN [n |-> position_sum, d |-> total_weight]
        ELSE [n |-> 50, d |-> 1]

\* EnsembleStrategy.analyze(df)
EnsembleAnalyze(mode, bt, st, weights, members) ==
    LET votes == Voters(members)
        total == Cardinality(votes)
        avg_position == AvgPosition(members, weights)
        decision == IF mode = "unanimous" THEN UnanimousVote(members)
                    ELSE IF mode = "any" THEN AnyVote(members)
                    ELSE IF mode = "weighted"
                    THEN WeightedVote(members, weights, bt, st)
                    ELSE MajorityVote(members, bt, st)
    IN  IF total = 0
        THEN [raises |-> FALSE, total |-> 0,
              sig |-> StrategySignal("HOLD", 0, "no_strategy", 50)]
        ELSE IF decision.raises
        THEN [raises |-> TRUE, total |-> total]
        ELSE [raises |-> FALSE, total |-> total, decision |-> decision,
              sig |-> StrategySignal(
                         decision.action,
                         RoundRat(decision.conf.n, decision.conf.d),
                         decision.reason,
                         RoundRat(avg_position.n, avg_position.d))]

\* EnsembleStrategy(mode, buy_threshold, sell_threshold, weights): the
\* arguments are stored as given
Ensemble_Construct ==
    /\ ens.pc = "new"
    /\ ens' = [ens EXCEPT !.pc = "ready"]
    /\ UNCHANGED <<btVars, sa>>

Ensemble_Analyze(members) ==
    /\ ens.pc = "ready"
    /\ ens' = [ens EXCEPT !.pc = "done", !.members = members,
                          !.ret = EnsembleAnalyze(ens.mode, ens.buy_threshold,
                                                  ens.sell_threshold,
                                                  ens.weights, members)]
    /\ UNCHANGED <<btVars, sa>>

EnsInit ==
    /\ BtIdle
    /\ sa = SaIdle
    /\ \E m \in Modes, bt \in BuyThresholds, st \in SellThresholds,
          w \in WeightVectors :
          ens = [pc |-> "new", mode |-> m, buy_threshold |-> bt,
                 sell_threshold |-> st, weights |-> w, members |-> << >>,
                 ret |-> [none |-> TRUE]]

\* every combination of what the first k members may do
RECURSIVE MemberVectors(_)
MemberVectors(k) ==
    IF k = 0 THEN {<< >>}
    ELSE {Append(v, b) : v \in MemberVectors(k - 1), b \in MemberBehaviours(k)}

EnsNext ==
    \/ Ensemble_Construct
    \/ /\ ens.pc = "ready"
       /\ \E members \in MemberVectors(MaxMembers) : Ensemble_Analyze(members)

EnsSpec == EnsInit /\ [][EnsNext]_vars

\* ------------------------------------- ensemble: the loop in a given order
\* `for strat_name, strat in self.sub_strategies.items()` visits the members
\* in the order of the dict; `order` is that sequence of members
SubStrategyOrder == [k \in 1..MaxOrdered |-> k]
Orders ==
    {o \in [1..MaxOrdered -> 1..MaxOrdered] :
        \A a, b \in 1..MaxOrdered : a # b => o[a] # o[b]}

\* sum(f(x) for x in s)
RECURSIVE SeqSum(_, _)
SeqSum(f, s) == IF s = << >> THEN 0 ELSE f[Head(s)] + SeqSum(f, Tail(s))

\* the lists `votes`, buy_votes, sell_votes as the loop fills them
VotesInOrder(members, order) ==
    SelectSeq(order, LAMBDA k : members[k].kind = "vote")
VotesForInOrder(members, order, action) ==
    SelectSeq(VotesInOrder(members, order),
              LAMBDA k : VoteOf(members, k).action = action)

\* max(votes, key=lambda x: x[1].confidence): the first of the most confident
RECURSIVE BestOf(_, _)
BestOf(members, s) ==
    IF Len(s) = 1 THEN Head(s)
    ELSE LET b == BestOf(members, Tail(s))
         IN  IF VoteOf(members, Head(s)).confidence
                   >= VoteOf(members, b).confidence
             THEN Head(s) ELSE b
BestConfidence_first(members, s) == VoteOf(members, Head(s)).confidence

BestConfidence(members, s) == VoteOf(members, BestOf(members, s)).confidence

\* analyze(df) with the members visited in `order`; names is the list of
\* member names the reason string quotes
EnsembleAnalyzeInOrder(mode, bt, st, weights, members, order) ==
    LET votes == VotesInOrder(members, order)
        buy_votes == VotesForInOrder(members, order, "BUY")
        sell_votes == VotesForInOrder(members, order, "SELL")
        total == Len(votes)
        conf == [k \in Voters(members) |-> VoteOf(members, k).confidence]
        wconf == [k \in Voters(members) |->
                     weights[k] * VoteOf(members, k).confidence]
        total_weight == SeqSum([k \in Voters(members) |-> weights[k]], votes)
        position_sum ==
            SeqSum([k \in Voters(members) |->
                       weights[k] * VoteOf(members, k).position], votes)
        buy_score == SeqSum(wconf, buy_votes)
        sell_score == SeqSum(wconf, sell_votes)
        total_active == buy_score + sell_score
        decision ==
            IF mode = "unanimous"
            THEN IF Len(buy_votes) = total
                 THEN Decision("BUY", SeqSum(conf, buy_votes), total,
                               "unanimous_buy")
                 ELSE IF Len(sell_votes) = total
                 THEN Decision("SELL", SeqSum(conf, sell_votes), total,
                               "unanimous_sell")
                 ELSE Decision("HOLD", 50, 1, "no_consensus")
            ELSE IF mode = "any"
            THEN IF sell_votes # << >>
                 THEN Decision("SELL", BestConfidence(members, sell_votes), 1,
                               "any_sell")
                 ELSE IF buy_votes # << >>
                 THEN Decision("BUY", BestConfidence(members, buy_votes), 1,
                               "any_buy")
                 ELSE Decision("HOLD", 50, 1, "all_hold")
            ELSE IF mode = "weighted"
            THEN IF total_active = 0
                 THEN Decision("HOLD", 50, 1, "no_direction")
                 ELSE IF buy_score > sell_score
                         /\ buy_score * 100 >= bt * total_active
                 THEN Decision("BUY", RoundRat(buy_score * 100, total_active),
                               1, "weighted_buy")
                 ELSE IF sell_score > buy_score
                         /\ sell_score * 100 >= st * total_active
                 THEN Decision("SELL",
                               RoundRat(sell_score * 100, total_active), 1,
                               "weighted_sell")
                 ELSE Decision("HOLD", 50, 1, "neutral")
            ELSE IF Len(buy_votes) * 100 >= bt * total
                 THEN IF buy_votes = << >> THEN Raise
                      ELSE Decision("BUY", SeqSum(conf, buy_votes),
                                    Len(buy_votes), "majority_buy")
                 ELSE IF Len(sell_votes) * 100 >= st * total
                 THEN IF sell_votes = << >> THEN Raise
                      ELSE Decision("SELL", SeqSum(conf, sell_votes),
                                    Len(sell_votes), "majority_sell")
                 ELSE Decision("HOLD", 50, 1, "split")
        names == IF decision.raises THEN << >>
                 ELSE IF decision.action = "BUY" THEN buy_votes
                 ELSE IF decision.action = "SELL" THEN sell_votes
                 ELSE << >>
    IN  IF total = 0
        THEN [raises |-> FALSE, total |-> 0, names |-> << >>,
              sig |-> StrategySignal("HOLD", 0, "no_strategy", 50)]
        ELSE IF decision.raises
        THEN [raises |-> TRUE, total |-> total, names |-> << >>]
        ELSE [raises |-> FALSE, total |-> total, names |-> names,
              sig |-> StrategySignal(
                         decision.action,
                         RoundRat(decision.conf.n, decision.conf.d),
                         decision.reason,
                         IF total_weight > 0
                         THEN RoundRat(position_sum, total_weight) ELSE 50)]

Ensemble_AnalyzeInOrder(order, members) ==
    /\ ens.pc = "ready"
    /\ ens' = [ens EXCEPT !.pc = "done", !.members = members,
                          !.order = order,
                          !.ret = EnsembleAnalyzeInOrder(
                                     ens.mode, ens.buy_threshold,
                                     ens.sell_threshold, ens.weights,
                                     members, order)]
    /\ UNCHANGED <<btVars, sa>>

OrdInit ==
    /\ BtIdle
    /\ sa = SaIdle
    /\ \E m \in Modes, bt \in BuyThresholds, st \in SellThresholds,
          w \in WeightVectors :
          ens = [pc |-> "ready", mode |-> m, buy_threshold |-> bt,
                 sell_threshold |-> st, weights |-> w, members |-> << >>,
                 order |-> SubStrategyOrder, ret |-> [none |-> TRUE]]

OrdNext ==
    /\ ens.pc = "ready"
    /\ \E order \in Orders, members \in MemberVectors(MaxOrdered) :
          Ensemble_AnalyzeInOrder(order, members)

OrdSpec == OrdInit /\ [][OrdNext]_vars

\* C10  Majority mode: with total the number of participating members, the
\* ensemble returns BUY with the mean confidence of the BUY voters when
\* |buy_votes|/total >= buy_threshold, else SELL with the mean confidence of
\* the SELL voters when |sell_votes|/total >= sell_threshold, else HOLD with
\* confidence 0.5; 3 BUY (0.6, 0.7, 0.8) + 2 HOLD at buy_threshold 0.5 is BUY
\* with confidence 0.70.
C10_Majority ==
    (ens.pc = "done" /\ ens.mode = "majority" /\ ens.ret.total > 0)
    => LET m == ens.members
           total == Cardinality({k \in DOMAIN m : m[k].kind = "vote"})
           buyers == {k \in DOMAIN m : m[k].kind = "vote" /\ m[k].action = "BUY"}
           sellers == {k \in DOMAIN m : m[k].kind = "vote" /\ m[k].action = "SELL"}
           confs(S) == Sum([k \in S |-> m[k].confidence], S)
           returns(action, S) ==
               /\ ~ens.ret.raises
               /\ ens.ret.sig.action = action
               /\ ens.ret.decision.conf.n * Cardinality(S)
                     = confs(S) * ens.ret.decision.conf.d
       IN  /\ IF Cardinality(buyers) * 100 >= ens.buy_threshold * total
              THEN returns("BUY", buyers)
              ELSE IF Cardinality(sellers) * 100 >= ens.sell_threshold * total
              THEN returns("SELL", sellers)
              ELSE /\ ~ens.ret.raises
                   /\ ens.ret.sig.action = "HOLD"
                   /\ ens.ret.sig.confidence = 50
           /\ (ens.buy_threshold = 50 /\ Cardinality(buyers) = 3
               /\ total = 5 /\ sellers = {} /\ confs(buyers) = 210)
              => ~ens.ret.raises /\ ens.ret.sig.action = "BUY"
                 /\ ens.ret.sig.confidence = 70

\* what the members of the finished call did, as the caller sees them
Took(action) ==
    {k \in DOMAIN ens.members :
        ens.members[k].kind = "vote" /\ ens.members[k].action = action}
Participating == {k \in DOMAIN ens.members : ens.members[k].kind = "vote"}
Returned(action) == ~ens.ret.raises /\ ens.ret.sig.action = action

C12_Any ==
    (ens.pc = "done" /\ ens.mode = "any" /\ ens.ret.total > 0)
    => LET m == ens.members
           largest(S, c) == /\ \E k \in S : m[k].confidence = c
                            /\ \A k \in S : m[k].confidence <= c
       IN  /\ ~ens.ret.raises
           /\ IF Took("SELL") # {}
              THEN /\ ens.ret.sig.action = "SELL"
                   /\ largest(Took("SELL"), ens.ret.sig.confidence)
              ELSE IF Took("BUY") # {}
              THEN /\ ens.ret.sig.action = "BUY"
                   /\ largest(Took("BUY"), ens.ret.sig.confidence)
              ELSE ens.ret.sig.action = "HOLD"

C12_Witness ==
    /\ ens.pc = "done" /\ ens.mode = "any"
    /\ Took("BUY") # {}
    /\ \E j, k \in Took("SELL") :
          ens.members[j].confidence < ens.members[k].confidence
    /\ \E b \in Took("BUY"), k \in Took("SELL") :
          ens.members[b].confidence > ens.members[k].confidence
    /\ Returned("SELL")

ParticipatingWeight == Sum([k \in Participating |-> ens.weights[k]], Participating)
ParticipatingPosition ==
    Sum([k \in Participating |-> ens.weights[k] * ens.members[k].position],
        Participating)

\* C14 as stated: the output position is exactly the weight-weighted mean of
\* the position of every participating member (0.5 when the total weight is
\* zero).
C14_ExactMean ==
    (ens.pc = "done" /\ ens.ret.total > 0 /\ ~ens.ret.raises)
    => IF ParticipatingWeight > 0
       THEN ens.ret.sig.position * ParticipatingWeight = ParticipatingPosition
       ELSE ens.ret.sig.position = 50

\* C14  The output position is the weight-weighted mean of the position of
\* every participating member, HOLD voters included, rounded to two decimals
\* (0.5 when the total weight is zero), whatever the voting mode and
\* whichever action wins.
C14_Position ==
    (ens.pc = "done" /\ ens.ret.total > 0 /\ ~ens.ret.raises)
    => IF ParticipatingWeight > 0
       THEN LET off == ens.ret.sig.position * ParticipatingWeight
                          - ParticipatingPosition
            IN  2 * off <= ParticipatingWeight /\ -2 * off <= ParticipatingWeight
       ELSE ens.ret.sig.position = 50

C14_Witness ==
    /\ ens.pc = "done" /\ ens.mode = "majority"
    /\ Took("HOLD") # {} /\ Took("BUY") # {} /\ Took("SELL") # {}
    /\ Returned("SELL")
    /\ ParticipatingWeight > 0
    /\ ParticipatingPosition % ParticipatingWeight # 0
    /\ ens.ret.sig.position
          = RoundRat(ParticipatingPosition, ParticipatingWeight)

\* C15  The participating set is exactly the members with enough history: a
\* member whose analyze fails still takes part, as a HOLD vote that counts in
\* the denominator `total`.
C15_FailedMemberParticipates ==
    ens.pc = "done"
    => ens.ret.total
          = Cardinality({k \in DOMAIN ens.members :
                            ens.members[k].kind # "short"})

\* C16  No ensemble instance with a buy_threshold or sell_threshold outside
\* [0,1] exists after construction.
C16_ThresholdsValidated ==
    ens.pc \in {"ready", "done"}
    => ens.buy_threshold \in 0..100 /\ ens.sell_threshold \in 0..100

\* ConservativeEnsemble(): majority mode, buy_threshold 0.5, sell_threshold
\* 0.34, the weights as passed on
ConservativeEnsemble ==
    /\ ens.mode = "majority"
    /\ ens.buy_threshold = 50
    /\ ens.sell_threshold = 34

\* C27  ConservativeEnsemble is protection-first: it returns SELL whenever at
\* least 34% of the participating members vote SELL, and BUY only when at
\* least 50% vote BUY.
C27_ProtectionFirst ==
    (ens.pc = "done" /\ ConservativeEnsemble /\ ens.ret.total > 0)
    => LET total == Cardinality(Participating)
       IN  /\ Cardinality(Took("SELL")) * 100 >= 34 * total
              => Returned("SELL")
           /\ Returned("BUY")
              => Cardinality(Took("BUY")) * 100 >= 50 * total

\* C30  In every voting mode, for thresholds in [0,1] and a non-empty set of
\* votes, BUY is returned only if some participating member voted BUY and
\* SELL only if some participating member voted SELL; with no directional
\* vote the returned action is neither.
C30_NoPhantomDirection ==
    (/\ ens.pc = "done" /\ ens.ret.total > 0
     /\ ens.buy_threshold \in 0..100 /\ ens.sell_threshold \in 0..100
     /\ ~ens.ret.raises)
    => /\ ens.ret.sig.action = "BUY" => Took("BUY") # {}
       /\ ens.ret.sig.action = "SELL" => Took("SELL") # {}
       /\ (Took("BUY") = {} /\ Took("SELL") = {})
          => ens.ret.sig.action = "HOLD"

C30_Witness ==
    /\ ens.pc = "done" /\ ens.mode = "majority" /\ ens.buy_threshold = 0
    /\ ens.sell_threshold \in 0..100
    /\ Cardinality(Participating) >= 3
    /\ Cardinality(Took("BUY")) = 1
    /\ Took("SELL") # {}
    /\ Returned("BUY")

=============================================================================
